---- MODULE Spec2Model ----
(***************************************************************************)
(* A model of the selection engine of python-igraph: VertexSeq.select and  *)
(* EdgeSeq.select (src/src/igraph/__init__.py).  A view is an ordered list *)
(* of absolute element indices of one graph; select() narrows a view by a  *)
(* list of keyword predicates, one after the other.                        *)
(*                                                                         *)
(* A keyword such as "_source_eq" is held as the list of its pieces        *)
(* between underscores, <<"", "source", "eq">>: a string and the list of   *)
(* its pieces determine each other, and every string operation the code    *)
(* uses ("_" in s, rindex, rpartition, slicing at the last underscore,     *)
(* appending "_eq", s[0]) is an operation on that list.                    *)
(***************************************************************************)
EXTENDS Integers, Sequences, FiniteSets, TLC

\* ------------------------------------------------------------------ bounds
NV == 3
MaxEdges == 2
MaxViewLen == 2

Vertices == 0 .. (NV - 1)

\* The endpoint pairs the graphs of the model are built from: a directed
\* ring over all the vertices (for three vertices the triangle
\* (0,1),(1,2),(2,0)) and one self-loop.
EdgePairs == {<<v, (v + 1) % NV>> : v \in Vertices} \cup {<<1, 1>>}

\* The example graph of the specification's tested properties.
Triangle == <<(<<0, 1>>), (<<1, 2>>), (<<2, 0>>)>>

VARIABLES
    vcount,     \* Graph.vcount()
    directed,   \* Graph.is_directed()
    edges,      \* the edge list: edge id e has the endpoints edges[e + 1]
    vattrs,     \* vertex attribute store: name -> one value per vertex
    eattrs,     \* edge attribute store: name -> one value per edge
    kind,       \* "vs": self is a VertexSeq, "es": self is an EdgeSeq
    self,       \* the view select() or find() is called on
    call,       \* the method called: "select", "find", or "none" before the call
    args,       \* the positional arguments of the call
    kwds,       \* the keyword arguments of the call, in call order
    compiled,   \* the (attr, op) the loop computed for the keyword it was given
    res,        \* what the call returned or raised
    pc          \* "idle" before the call, "done" after it

vars == <<vcount, directed, edges, vattrs, eattrs, kind, self, call, args, kwds, compiled, res, pc>>

\* ------------------------------------------------------------ graph engine
ecount(es) == Len(es)
source(es, e) == es[e + 1][1]
target(es, e) == es[e + 1][2]
EdgeIds(es) == 0 .. (ecount(es) - 1)

\* Graph.incident(vertex, mode): the ids of the edges leaving the vertex
\* ("out"), entering it ("in") or both ("all"); the mode is ignored on an
\* undirected graph.
incident(dir, es, v, mode) ==
    {e \in EdgeIds(es) :
        \/ (mode = "out" \/ mode = "all" \/ ~dir) /\ source(es, e) = v
        \/ (mode = "in" \/ mode = "all" \/ ~dir) /\ target(es, e) = v}

\* Graph.degree(vertices): one value per vertex of the view, in view order;
\* a self-loop counts twice.
degree(es, idx) ==
    [i \in 1 .. Len(idx) |->
        Cardinality({e \in EdgeIds(es) : source(es, e) = idx[i]})
        + Cardinality({e \in EdgeIds(es) : target(es, e) = idx[i]})]

\* Graph.count_multiple(edges): for each edge of the view, in view order,
\* the number of edges of the graph with the same endpoints (itself
\* included); the direction counts on a directed graph only.
SameEnds(dir, es, e, f) ==
    \/ source(es, e) = source(es, f) /\ target(es, e) = target(es, f)
    \/ ~dir /\ source(es, e) = target(es, f) /\ target(es, e) = source(es, f)

count_multiple(dir, es, idx) ==
    [i \in 1 .. Len(idx) |->
        Cardinality({f \in EdgeIds(es) : SameEnds(dir, es, idx[i], f)})]

\* GraphBase.delete_edges(edge_seq), on a list with one row per edge (the
\* edge list, the values of an edge attribute): the rows of the edges of D
\* go, the others keep their order and are numbered anew.
without(rows, D) ==
    SelectSeq([j \in DOMAIN rows |-> <<j - 1, rows[j]>>], LAMBDA r : r[1] \notin D)

remaining(rows, D) == [i \in DOMAIN without(rows, D) |-> without(rows, D)[i][2]]

\* ------------------------------------------------------------------- views
View(idx, all) == [idx |-> idx, all |-> all]
Identity(n) == [i \in 1 .. n |-> i - 1]
FullView(n) == View(Identity(n), TRUE)
is_all(v) == v.all

\* The outcome of a call or of a step of it: the view it gives or the error
\* it raises, and in del the ids of the edges it removed from the graph.
Ok(v) == [ok |-> TRUE, idx |-> v.idx, all |-> v.all, err |-> "none", del |-> {}]
Raise(e) == [ok |-> FALSE, idx |-> <<>>, all |-> FALSE, err |-> e, del |-> {}]
NoResult == Raise("not called")

\* _EdgeSeq.select(self, local_indices): element i of the result is element
\* local_indices[i] of the view; an index past the end of the view fails.
narrow(v, L) ==
    IF \E i \in 1 .. Len(L) : L[i] < 0 \/ L[i] >= Len(v.idx)
    THEN Raise("IndexOutOfRange")
    ELSE Ok(View([i \in 1 .. Len(L) |-> v.idx[L[i] + 1]],
                 v.all /\ L = Identity(Len(v.idx))))

\* ------------------------------------------------------ predicate compiler
\* The operand of a keyword: an integer, a set of integers, or a tuple of n
\* items of which a and b are the first two.
IntV(i) == [k |-> "int", i |-> i, s |-> {}, n |-> 0, a |-> {}, b |-> {}]
SetV(s) == [k |-> "set", i |-> 0, s |-> s, n |-> 0, a |-> {}, b |-> {}]
PairV(a, b) == [k |-> "tuple", i |-> 0, s |-> {}, n |-> 2, a |-> a, b |-> b, m |-> "set"]

\* A string operand, a tuple operand of three sets, and a positional
\* argument that is a list of integers.
StrV(t) == [k |-> "str", i |-> 0, s |-> {}, n |-> 0, a |-> {}, b |-> {}, t |-> t]
TripleV(a, b, c) ==
    [k |-> "tuple", i |-> 0, s |-> {}, n |-> 3, a |-> a, b |-> b, c |-> c, m |-> "set"]

\* A tuple operand of one set, and a tuple operand of two integers (m tells
\* what the members of a tuple are).
OneV(a) == [k |-> "tuple", i |-> 0, s |-> {}, n |-> 1, a |-> a, b |-> {}, m |-> "set"]
IntsV(x, y) == [k |-> "tuple", i |-> 0, s |-> {}, n |-> 2, a |-> {}, b |-> {}, m |-> "int",
                x |-> x, y |-> y]

\* The operand None.
NoneV == [k |-> "none", i |-> 0, s |-> {}, n |-> 0, a |-> {}, b |-> {}]
ListV(l) == [k |-> "list", i |-> 0, s |-> {}, n |-> Len(l), a |-> {}, b |-> {}, l |-> l]

\* operators without its last entry
operatorsButNotin == {"lt", "gt", "le", "ge", "eq", "ne", "in"}

operators == {"lt", "gt", "le", "ge", "eq", "ne", "in", "notin"}

\* operators[op](a, b), for a stored or computed value a: an integer, or a
\* string where the operand is one
func(op, a, b) ==
    CASE op = "eq" -> IF b.k = "str" THEN a = b.t ELSE b.k = "int" /\ a = b.i
      [] op = "ne" -> IF b.k = "str" THEN a /= b.t ELSE ~(b.k = "int" /\ a = b.i)
      [] op = "lt" -> a < b.i
      [] op = "gt" -> a > b.i
      [] op = "le" -> a <= b.i
      [] op = "ge" -> a >= b.i
      [] op = "in" -> a \in b.s
      [] op = "notin" -> a \notin b.s

\* The operand types the operator accepts without a TypeError.
Comparable(op, b) ==
    CASE op \in {"eq", "ne"} -> TRUE
      [] op \in {"lt", "gt", "le", "ge"} -> b.k = "int"
      [] OTHER -> b.k = "set"

\* WithDefaultOp without the test for a leading underscore
WithDefaultOpBare(kw) == IF Len(kw) = 1 THEN Append(kw, "eq") ELSE kw

\* if "_" not in keyword or keyword.rindex("_") == 0: keyword += "_eq"
WithDefaultOp(kw) ==
    IF Len(kw) = 1 \/ (Len(kw) = 2 /\ kw[1] = "") THEN Append(kw, "eq") ELSE kw

Front(kw) == SubSeq(kw, 1, Len(kw) - 1)
Last(kw) == kw[Len(kw)]

\* EdgeParse that keeps the prefix as the attribute of an unknown operator
EdgeParsePrefix(kw) ==
    LET keyword == WithDefaultOp(kw)
    IN  IF Last(keyword) \in operators
        THEN [attr |-> Front(keyword), op |-> Last(keyword)]
        ELSE [attr |-> Front(keyword), op |-> "eq"]

\* EdgeSeq.select: pos = keyword.rindex("_"); attr, op = keyword[0:pos],
\* keyword[pos + 1:]; an unknown op makes the whole keyword the attribute.
EdgeParse(kw) ==
    LET keyword == WithDefaultOp(kw)
    IN  IF Last(keyword) \in operators
        THEN [attr |-> Front(keyword), op |-> Last(keyword)]
        ELSE [attr |-> keyword, op |-> "eq"]

\* VertexParse that keeps the prefix as the attribute of an unknown operator
VertexParsePrefix(kw) ==
    LET keyword == WithDefaultOp(kw)
        part == [attr |-> SubSeq(keyword, 1, Len(keyword) - 1),
                 op |-> keyword[Len(keyword)]]
    IN  IF part.op \in operators THEN part ELSE [attr |-> part.attr, op |-> "eq"]

\* VertexSeq.select: attr, _, op = keyword.rpartition("_"); an unknown op
\* makes the whole keyword the attribute.
VertexParse(kw) ==
    LET keyword == WithDefaultOp(kw)
        part == [attr |-> SubSeq(keyword, 1, Len(keyword) - 1),
                 op |-> keyword[Len(keyword)]]
    IN  IF part.op \in operators THEN part ELSE [attr |-> keyword, op |-> "eq"]

\* attr[0] == "_"
IsSpecial(attr) == Len(attr) >= 2 /\ attr[1] = ""

\* ------------------------------------------------------ selection evaluator
\* sorted(S): the elements of a set of integers in increasing order.
RECURSIVE sorted(_)
sorted(S) ==
    IF S = {} THEN <<>>
    ELSE LET m == CHOOSE x \in S : \A y \in S : x <= y
         IN  <<m>> \o sorted(S \ {m})

\* The orders in which iterating over a Python set may yield its elements:
\* the language fixes none.
SetOrders(S) ==
    {f \in [1 .. Cardinality(S) -> S] : \A i, j \in 1 .. Cardinality(S) : f[i] = f[j] => i = j}

\* Positions that counts the positions from one
PositionsFromOne(keep) == SelectSeq([i \in 1 .. Len(keep) |-> i], LAMBDA i : keep[i])

\* [i for i, x in enumerate(...) if keep]: the local positions 0 .. n-1
\* whose flag is set, in increasing order.
Positions(keep) == SelectSeq(Identity(Len(keep)), LAMBDA i : keep[i + 1])

\* ApplyFunc that narrows by the absolute indices of the elements it keeps
ApplyFuncAbsolute(v, values, op, value) ==
    IF ~Comparable(op, value) /\ Len(values) > 0 THEN {Raise("TypeError")}
    ELSE {narrow(v, SelectSeq(v.idx, LAMBDA x : \E i \in DOMAIN values :
                                  v.idx[i] = x /\ func(op, values[i], value)))}

\* ApplyFunc that lists every position it keeps twice
ApplyFuncTwice(v, values, op, value) ==
    IF ~Comparable(op, value) /\ Len(values) > 0 THEN {Raise("TypeError")}
    ELSE LET kept == Positions([i \in DOMAIN values |-> func(op, values[i], value)])
         IN  {narrow(v, kept \o kept)}

\* filtered_idxs = [i for i, v in enumerate(values) if func(v, value)];
\* es = es.select(filtered_idxs)
ApplyFunc(v, values, op, value) ==
    IF ~Comparable(op, value) /\ Len(values) > 0 THEN {Raise("TypeError")}
    ELSE {narrow(v, Positions([i \in DOMAIN values |-> func(op, values[i], value)]))}

\* _ensure_set(value) accepts a set (or any iterable of vertex ids)
IsSetLike(value) == value.k = "set"

\* candidates: the union of incident(v) over the vertices of S; the call
\* names no mode.
candidates(dir, es, S) == UNION {incident(dir, es, x, "out") : x \in S}

\* The view's edge at local position i (0-based): es[i]
At(v, i) == v.idx[i + 1]

source_names == {<<"", "source">>, <<"", "from">>}
target_names == {<<"", "target">>, <<"", "to">>}

\* _source / _from (end = 1) and _target / _to (end = 2) on a directed graph
\* EndpointStep whose shortcut has the two modes the wrong way round
EndpointStepSwapped(dir, es, v, end, op, value) ==
    IF is_all(v) /\ op = "eq"
    THEN IF value.k /= "int" THEN {Raise("TypeError")}
         ELSE {narrow(v, sorted(incident(dir, es, value.i, IF end = 1 THEN "in" ELSE "out")))}
    ELSE IF op \in {"in", "notin"} /\ ~IsSetLike(value) THEN {Raise("TypeError")}
    ELSE ApplyFunc(v, [i \in 1 .. Len(v.idx) |-> es[v.idx[i] + 1][end]], op, value)

\* EndpointStep that takes the shortcut without asking es.is_all()
EndpointStepAlwaysShortcut(dir, es, v, end, op, value) ==
    IF op = "eq"
    THEN IF value.k /= "int" THEN {Raise("TypeError")}
         ELSE {narrow(v, sorted(incident(dir, es, value.i, IF end = 1 THEN "out" ELSE "in")))}
    ELSE IF op \in {"in", "notin"} /\ ~IsSetLike(value) THEN {Raise("TypeError")}
    ELSE ApplyFunc(v, [i \in 1 .. Len(v.idx) |-> es[v.idx[i] + 1][end]], op, value)

EndpointStep(dir, es, v, end, op, value) ==
    IF is_all(v) /\ op = "eq"
    THEN IF value.k /= "int" THEN {Raise("TypeError")}
         ELSE {narrow(v, sorted(incident(dir, es, value.i, IF end = 1 THEN "out" ELSE "in")))}
    ELSE IF op \in {"in", "notin"} /\ ~IsSetLike(value) THEN {Raise("TypeError")}
    ELSE ApplyFunc(v, [i \in 1 .. Len(v.idx) |-> es[v.idx[i] + 1][end]], op, value)

\* IncidentStep whose full-view branch asks for the edges of both directions
IncidentStepBoth(dir, es, v, value) ==
    IF ~IsSetLike(value) THEN {Raise("TypeError")}
    ELSE LET cand == candidates(dir, es, value.s)
         IN  IF ~is_all(v)
             THEN {narrow(v, Positions([j \in DOMAIN v.idx |-> LET i == j - 1 IN At(v, i) \in cand]))}
             ELSE {narrow(v, sorted(UNION {incident(dir, es, x, "all") : x \in value.s}))}

IncidentStep(dir, es, v, value) ==
    IF ~IsSetLike(value) THEN {Raise("TypeError")}
    ELSE LET cand == candidates(dir, es, value.s)
         IN  IF ~is_all(v)
             THEN {narrow(v, Positions([j \in DOMAIN v.idx |-> LET i == j - 1 IN At(v, i) \in cand]))}
             ELSE {narrow(v, sorted(cand))}

\* WithinStep with "or" for "and" between the two endpoint tests
WithinStepEither(dir, es, v, value) ==
    IF ~IsSetLike(value) THEN {Raise("TypeError")}
    ELSE LET cand == candidates(dir, es, value.s)
         IN  IF ~is_all(v)
             THEN {narrow(v, Positions([j \in DOMAIN v.idx |-> LET i == j - 1 IN
                        /\ At(v, i) \in cand
                        /\ (source(es, At(v, i)) \in value.s
                            \/ target(es, At(v, i)) \in value.s)]))}
             ELSE {narrow(v, L) : L \in SetOrders({i \in cand :
                        \/ source(es, At(v, i)) \in value.s
                        \/ target(es, At(v, i)) \in value.s})}

\* WithinStep whose scan of a non-full view gathers the positions in a set
WithinStepUnordered(dir, es, v, value) ==
    IF ~IsSetLike(value) THEN {Raise("TypeError")}
    ELSE LET cand == candidates(dir, es, value.s)
             keep(i) == /\ source(es, At(v, i)) \in value.s
                        /\ target(es, At(v, i)) \in value.s
         IN  IF ~is_all(v)
             THEN {narrow(v, L) : L \in SetOrders({i \in 0 .. (Len(v.idx) - 1) :
                                                    At(v, i) \in cand /\ keep(i)})}
             ELSE {narrow(v, L) : L \in SetOrders({i \in cand : keep(i)})}

\* WithinStep whose scan of a non-full view tests the source only
WithinStepScanSource(dir, es, v, value) ==
    IF ~IsSetLike(value) THEN {Raise("TypeError")}
    ELSE LET cand == candidates(dir, es, value.s)
         IN  IF ~is_all(v)
             THEN {narrow(v, Positions([j \in DOMAIN v.idx |-> LET i == j - 1 IN
                        /\ At(v, i) \in cand
                        /\ source(es, At(v, i)) \in value.s]))}
             ELSE {narrow(v, L) : L \in SetOrders({i \in cand :
                        /\ source(es, At(v, i)) \in value.s
                        /\ target(es, At(v, i)) \in value.s})}

WithinStep(dir, es, v, value) ==
    IF ~IsSetLike(value) THEN {Raise("TypeError")}
    ELSE LET cand == candidates(dir, es, value.s)
         IN  IF ~is_all(v)
             THEN {narrow(v, Positions([j \in DOMAIN v.idx |-> LET i == j - 1 IN
                        /\ At(v, i) \in cand
                        /\ source(es, At(v, i)) \in value.s
                        /\ target(es, At(v, i)) \in value.s]))}
             ELSE {narrow(v, L) : L \in SetOrders({i \in cand :
                        /\ source(es, At(v, i)) \in value.s
                        /\ target(es, At(v, i)) \in value.s})}

\* BetweenStep that tests one direction only
BetweenStepOneWay(dir, es, v, value) ==
    IF value.k \in {"int", "none"} THEN {Raise("TypeError")}
    ELSE IF (value.k = "set" /\ Cardinality(value.s) /= 2) \/ (value.k = "tuple" /\ value.n /= 2)
    THEN {Raise("ValueError")}
    ELSE IF value.k = "set" \/ (value.k = "tuple" /\ value.m = "int") THEN {Raise("TypeError")}
    ELSE LET set1 == value.a
             set2 == value.b
             cand == candidates(dir, es, set1) \cup candidates(dir, es, set2)
             ok(e) == source(es, e) \in set1 /\ target(es, e) \in set2
         IN  IF ~is_all(v)
             THEN {narrow(v, Positions([j \in DOMAIN v.idx |-> LET i == j - 1 IN ok(At(v, i))]))}
             ELSE {narrow(v, L) : L \in SetOrders({i \in cand : ok(At(v, i))})}

BetweenStep(dir, es, v, value) ==
    IF value.k \in {"int", "none"} THEN {Raise("TypeError")}
    ELSE IF (value.k = "set" /\ Cardinality(value.s) /= 2) \/ (value.k = "tuple" /\ value.n /= 2)
    THEN {Raise("ValueError")}
    ELSE IF value.k = "set" \/ (value.k = "tuple" /\ value.m = "int") THEN {Raise("TypeError")}
    ELSE LET set1 == value.a
             set2 == value.b
             cand == candidates(dir, es, set1) \cup candidates(dir, es, set2)
             ok(e) == \/ source(es, e) \in set1 /\ target(es, e) \in set2
                      \/ target(es, e) \in set1 /\ source(es, e) \in set2
         IN  IF ~is_all(v)
             THEN {narrow(v, Positions([j \in DOMAIN v.idx |-> LET i == j - 1 IN ok(At(v, i))]))}
             ELSE {narrow(v, L) : L \in SetOrders({i \in cand : ok(At(v, i))})}

\* AttrValues that reads the first values of the graph's list, whatever the
\* view holds
AttrValuesOfGraph(store, attr, v) == [i \in 1 .. Len(v.idx) |-> store[attr][i]]

\* values = es[attr]: the attribute's values for the elements of the view
AttrValues(store, attr, v) == [i \in 1 .. Len(v.idx) |-> store[attr][v.idx[i] + 1]]

\* Rewritten with the test of the direction inverted
RewrittenDirected(dir, attr) == attr \in {<<"", "source">>, <<"", "from">>, <<"", "target">>, <<"", "to">>} /\ dir

\* Unsupported that lets "ne" through as well
UnsupportedButNe(op) == op \notin {"eq", "in", "ne"}

\* attr in ("_source", "_from", "_target", "_to") and not is_directed
Rewritten(dir, attr) == attr \in (source_names \cup target_names) /\ ~dir

\* if op not in ("eq", "in"): raise RuntimeError(...)
Unsupported(op) == op \notin {"eq", "in"}

\* Graph.delete_edges(es) with the view as its one argument and no keyword:
\* edge_seq = args[0]; GraphBase.delete_edges(self, edge_seq).  The ids of
\* the edges that leave the graph.
delete_edges(v) == {v.idx[i] : i \in DOMAIN v.idx}

\* values = getattr(es.graph, "delete_edges")(es) is None, and enumerate(None)
\* raises TypeError after the edges are gone.
DeleteStep(v) == {[Raise("TypeError") EXCEPT !.del = delete_edges(v)]}

\* One pass of the loop of EdgeSeq.select over the keyword p of the call, on
\* the current view v: the views it may leave in es, or the error it raises.
EdgeStep(dir, es, ea, v, p) ==
    LET parsed == EdgeParse(p.kw)
        op == parsed.op
        rewrite == Rewritten(dir, parsed.attr)
        attr == IF rewrite THEN <<"", "incident">> ELSE parsed.attr
        value == IF rewrite /\ op = "eq" /\ p.val.k = "int" THEN SetV({p.val.i}) ELSE p.val
    IN  IF ~IsSpecial(parsed.attr)
        THEN IF attr \notin DOMAIN ea THEN {Raise("KeyError")}
             ELSE ApplyFunc(v, AttrValues(ea, attr, v), op, value)
        ELSE IF rewrite /\ Unsupported(op) THEN {Raise("RuntimeError")}
        ELSE IF rewrite /\ op = "eq" /\ p.val.k = "tuple" THEN {Raise("TypeError")}
        ELSE IF attr \in source_names THEN EndpointStep(dir, es, v, 1, op, value)
        ELSE IF attr \in target_names THEN EndpointStep(dir, es, v, 2, op, value)
        ELSE IF attr = <<"", "incident">> THEN IncidentStep(dir, es, v, value)
        ELSE IF attr = <<"", "within">> THEN WithinStep(dir, es, v, value)
        ELSE IF attr = <<"", "between">> THEN BetweenStep(dir, es, v, value)
        ELSE IF attr = <<"", "count", "multiple">>
        THEN ApplyFunc(v, count_multiple(dir, es, v.idx), op, value)
        ELSE IF attr = <<"", "delete", "edges">> THEN DeleteStep(v)
        ELSE {Raise("AttributeError")}

\* VertexStep that passes over a keyword whose attribute does not exist
VertexStepSkipsUnknown(es, va, v, p) ==
    LET parsed == VertexParse(p.kw)
    IN  IF IsSpecial(parsed.attr)
        THEN IF parsed.attr = <<"", "degree">>
             THEN ApplyFunc(v, degree(es, v.idx), parsed.op, p.val)
             ELSE {Raise("AttributeError")}
        ELSE IF parsed.attr \notin DOMAIN va THEN {Ok(v)}
        ELSE ApplyFunc(v, AttrValues(va, parsed.attr, v), parsed.op, p.val)

\* VertexStep that asks the graph for the degrees of the first vertices of
\* the graph, as many as the current view is long, not for the degrees of
\* the view's vertices.
VertexStepStaleDegree(es, va, v, p) ==
    LET parsed == VertexParse(p.kw)
    IN  IF IsSpecial(parsed.attr)
        THEN IF parsed.attr = <<"", "degree">>
             THEN ApplyFunc(v, degree(es, Identity(Len(v.idx))), parsed.op, p.val)
             ELSE {Raise("AttributeError")}
        ELSE IF parsed.attr \notin DOMAIN va THEN {Raise("KeyError")}
        ELSE ApplyFunc(v, AttrValues(va, parsed.attr, v), parsed.op, p.val)

\* One pass of the loop of VertexSeq.select.
VertexStep(es, va, v, p) ==
    LET parsed == VertexParse(p.kw)
    IN  IF IsSpecial(parsed.attr)
        THEN IF parsed.attr = <<"", "degree">>
             THEN ApplyFunc(v, degree(es, v.idx), parsed.op, p.val)
             ELSE {Raise("AttributeError")}
        ELSE IF parsed.attr \notin DOMAIN va THEN {Raise("KeyError")}
        ELSE ApplyFunc(v, AttrValues(va, parsed.attr, v), parsed.op, p.val)

\* for keyword, value in kwds.items(): ...; return es
\* The results the call may give from the current view r on: an error ends
\* the loop, a view goes on to the next keyword.
RECURSIVE select(_, _, _, _, _, _, _)
select(k, dir, es, va, ea, r, ps) ==
    IF ~r.ok \/ ps = <<>> THEN {r}
    ELSE UNION {select(k, dir, es, va, ea, r2, Tail(ps)) :
                    r2 \in IF k = "es" THEN EdgeStep(dir, es, ea, r, Head(ps))
                                       ELSE VertexStep(es, va, r, Head(ps))}

\* _VertexSeq.select(self, *args) / _EdgeSeq.select(self, *args): without
\* arguments a copy of the view; with one list of integers, or with
\* integers, the view narrowed by them as local positions.
positional(v, as) ==
    IF as = <<>> THEN Ok(v)
    ELSE IF as[1].k = "list"
    THEN IF Len(as) = 1 THEN narrow(v, as[1].l) ELSE Raise("TypeError")
    ELSE IF \A i \in DOMAIN as : as[i].k = "int"
    THEN narrow(v, [i \in DOMAIN as |-> as[i].i])
    ELSE Raise("TypeError")

\* The vertex or edge a find() returns: idx holds its one index.
Element(x) == Ok(View(<<x>>, FALSE))

\* _VertexSeq.find(self, i) / _EdgeSeq.find(self, i): the element at the
\* local position i of the view.
find_at(v, i) ==
    IF i < 0 \/ i >= Len(v.idx) THEN Raise("IndexOutOfRange") ELSE Element(v.idx[i + 1])

\* _VertexSeq.find(self, name): the name index gives the first vertex of the
\* graph with that name; it is returned if the view holds it.
find_by_name(n, va, v, name) ==
    LET named == IF <<"name">> \in DOMAIN va
                 THEN {x \in 0 .. (n - 1) : va[<<"name">>][x + 1] = name}
                 ELSE {}
        x == CHOOSE y \in named : \A z \in named : y <= z
    IN  IF named = {} THEN Raise("ValueError")
        ELSE IF \E i \in DOMAIN v.idx : v.idx[i] = x THEN Element(x)
        ELSE Raise("ValueError")

\* first that returns the last element of the view
firstLast(r) ==
    IF ~r.ok THEN r
    ELSE IF r.idx = <<>> THEN Raise("ValueError")
    ELSE Element(r.idx[Len(r.idx)])

\* if vs: return vs[0]; raise ValueError("no such vertex")
first(r) ==
    IF ~r.ok THEN r
    ELSE IF r.idx = <<>> THEN Raise("ValueError")
    ELSE Element(r.idx[1])

\* The sequence s without its position i.
pop(s, i) == SubSeq(s, 1, i - 1) \o SubSeq(s, i + 1, Len(s))

\* VertexSeq.find (k = "vs") and EdgeSeq.find (k = "es"), on the view v of a
\* graph with n vertices, with the positional arguments as and the keywords
\* ps: the outcomes the call may have.
find(k, n, dir, es, va, ea, v, as, ps) ==
    LET name == {i \in DOMAIN ps : ps[i].kw = <<"name">>}
        name_eq == {i \in DOMAIN ps : ps[i].kw = <<"name", "eq">>}
        popped == IF k = "vs" /\ as = <<>>
                  THEN IF name /= {} THEN name ELSE name_eq
                  ELSE {}
        i == CHOOSE j \in popped : TRUE
        shortcut == popped /= {} /\ ps[i].val.k = "str"
        args2 == IF shortcut THEN <<ps[i].val>> ELSE as
        kwds2 == IF popped = {} THEN ps
                 ELSE IF shortcut \/ ps[i].val.k = "none" THEN pop(ps, i)
                 ELSE Append(pop(ps, i), [kw |-> <<"name">>, val |-> ps[i].val])
        whole == FullView(IF k = "vs" THEN n ELSE ecount(es))
        found == IF args2 = <<>> THEN NoResult
                 ELSE IF Len(args2) > 1 THEN Raise("TypeError")
                 ELSE IF args2[1].k = "int" THEN find_at(v, args2[1].i)
                 ELSE IF args2[1].k = "str" /\ k = "vs" THEN find_by_name(n, va, v, args2[1].t)
                 ELSE Raise("TypeError")
    IN  IF args2 /= <<>>
        THEN IF ~found.ok \/ kwds2 = <<>> THEN {found}
             ELSE {first(r) : r \in select(k, dir, es, va, ea,
                                     positional(whole, <<IntV(found.idx[1])>>), kwds2)}
        ELSE {first(r) : r \in select(k, dir, es, va, ea, Ok(v), kwds2)}

\* ------------------------------------------------------------------ inputs
\* The edge lists of the model: every multiset of at most MaxEdges endpoint
\* pairs, listed in the order of (source, target), and the triangle.  Views
\* list the edges in every order.
InOrder(p, q) == p[1] < q[1] \/ (p[1] = q[1] /\ p[2] <= q[2])

Graphs ==
    {g \in UNION {[1 .. n -> EdgePairs] : n \in 0 .. MaxEdges} :
        \A i \in 1 .. (Len(g) - 1) : InOrder(g[i], g[i + 1])}
    \cup {Triangle}

\* The views over n elements: the full view, and every list of at most
\* MaxViewLen indices (with repeats, in any order), which is not full.
Views(n) ==
    {FullView(n)}
    \cup {View(s, FALSE) : s \in UNION {[1 .. k -> 0 .. (n - 1)] : k \in 0 .. MaxViewLen}}

VertexSets == SUBSET Vertices
Pred(kw, val) == [kw |-> kw, val |-> val]

endpoint_names == source_names \cup target_names

\* _source, _from, _target, _to with each operator and an operand of its type
EndpointPreds ==
    {Pred(Append(a, op), IntV(x)) : a \in endpoint_names,
                                    op \in {"eq", "ne", "lt", "gt", "le", "ge"}, x \in Vertices}
    \cup {Pred(Append(a, op), SetV(S)) : a \in endpoint_names,
                                        op \in {"in", "notin", "eq"}, S \in VertexSets}
    \cup {Pred(a, IntV(x)) : a \in endpoint_names, x \in Vertices}

\* _incident, _within, _between with every operand
SetPreds ==
    {Pred(<<"", a>>, SetV(S)) : a \in {"incident", "within"}, S \in VertexSets}
    \cup {Pred(<<"", "between">>, PairV(S1, S2)) : S1 \in VertexSets, S2 \in VertexSets}

\* view[name] = values: a shorter value list is reused cyclically.
Broadcast(values, n) == [i \in 1 .. n |-> values[((i - 1) % Len(values)) + 1]]

\* ----------------------------------------------------------------- actions
\* g.es over a graph without attributes, or a narrowed view of it
InitEdges ==
    /\ vcount = NV
    /\ directed \in BOOLEAN
    /\ edges \in Graphs
    /\ vattrs = <<>>
    /\ eattrs = <<>>
    /\ kind = "es"
    /\ self \in Views(ecount(edges))
    /\ call = "none"
    /\ args = <<>>
    /\ kwds = <<>>
    /\ compiled = <<>>
    /\ res = NoResult
    /\ pc = "idle"

\* What a call that removed the edges of D leaves of the graph.
Removed(D) ==
    /\ edges' = remaining(edges, D)
    /\ eattrs' = [a \in DOMAIN eattrs |-> remaining(eattrs[a], D)]
    /\ UNCHANGED <<vcount, directed, vattrs>>

\* SelectArgs that starts from the sequence of the whole graph instead of
\* self.
SelectArgsOfGraph(as, ps) ==
    /\ pc = "idle"
    /\ res' \in select(kind, directed, edges, vattrs, eattrs,
                       positional(FullView(IF kind = "es" THEN ecount(edges) ELSE vcount), as), ps)
    /\ call' = "select"
    /\ args' = as
    /\ kwds' = ps
    /\ pc' = "done"
    /\ Removed(res'.del)
    /\ UNCHANGED <<kind, self, compiled>>

\* SelectArgs that runs the keyword loop on self and narrows the result by
\* the positional arguments afterwards.
SelectArgsKeywordsFirst(as, ps) ==
    /\ pc = "idle"
    /\ res' \in {IF r.ok THEN positional(View(r.idx, r.all), as) ELSE r :
                     r \in select(kind, directed, edges, vattrs, eattrs, Ok(self), ps)}
    /\ call' = "select"
    /\ args' = as
    /\ kwds' = ps
    /\ pc' = "done"
    /\ Removed(res'.del)
    /\ UNCHANGED <<kind, self, compiled>>

\* self.select(*as, **ps): es = _EdgeSeq.select(self, *as), then the loop
\* over ps
SelectArgs(as, ps) ==
    /\ pc = "idle"
    /\ res' \in select(kind, directed, edges, vattrs, eattrs, positional(self, as), ps)
    /\ call' = "select"
    /\ args' = as
    /\ kwds' = ps
    /\ pc' = "done"
    /\ Removed(res'.del)
    /\ UNCHANGED <<kind, self, compiled>>

\* self.select(**ps)
Select(ps) == SelectArgs(<<>>, ps)

\* self.find(*as, **ps)
Find(as, ps) ==
    /\ pc = "idle"
    /\ res' \in find(kind, vcount, directed, edges, vattrs, eattrs, self, as, ps)
    /\ call' = "find"
    /\ args' = as
    /\ kwds' = ps
    /\ pc' = "done"
    /\ Removed(res'.del)
    /\ UNCHANGED <<kind, self, compiled>>

\* The caller goes on with the view a select() returned, to call select()
\* on it.
Then ==
    /\ pc = "done" /\ call = "select" /\ res.ok
    /\ self' = View(res.idx, res.all)
    /\ call' = "none"
    /\ args' = <<>>
    /\ kwds' = <<>>
    /\ res' = NoResult
    /\ pc' = "idle"
    /\ UNCHANGED <<vcount, directed, edges, vattrs, eattrs, kind, compiled>>

\* The first statements of the loop body, for the keyword kw: the attr and
\* the op the rest of the body works with.
Compile(kw) ==
    /\ pc = "idle"
    /\ kwds' = <<[kw |-> kw, val |-> IntV(0)]>>
    /\ compiled' = IF kind = "es" THEN EdgeParse(kw) ELSE VertexParse(kw)
    /\ pc' = "done"
    /\ UNCHANGED <<vcount, directed, edges, vattrs, eattrs, kind, self, call, args, res>>

NextSets == \E p \in SetPreds : Select(<<p>>)
SpecSets == InitEdges /\ [][NextSets]_vars

NextEndpoints == \E p \in EndpointPreds : Select(<<p>>)
SpecEndpoints == InitEdges /\ [][NextEndpoints]_vars

\* The keywords with an optimized branch for the full view: the three set
\* subjects, and the endpoint subjects with eq (written out or by default).
OptimizedPreds ==
    SetPreds \cup {p \in EndpointPreds : EdgeParse(p.kw).op = "eq"}

NextOptimized == \E p \in OptimizedPreds : Select(<<p>>)
SpecOptimized == InitEdges /\ [][NextOptimized]_vars

\* Keywords that may follow an endpoint keyword in the same call: none, one
\* that succeeds, one that fails on its own.
Followers ==
    {<<>>, <<Pred(<<"", "incident">>, SetV({1}))>>, <<Pred(<<"color">>, IntV(1))>>}

InitUndirected == InitEdges /\ ~directed
NextFollowed == \E p \in EndpointPreds, f \in Followers : Select(<<p>> \o f)
SpecFollowed == InitUndirected /\ [][NextFollowed]_vars

\* The longest keyword list of a call of the model.
MaxKw == 2

\* The attribute values of the specification's examples.
AgeValues == <<10, 25, 30, 15, 40>>
WeightValues == <<10, 25>>

\* Keywords of each kind of subject for calls with several keywords: the
\* reserved edge subjects, a stored attribute and a computed subject.
EdgeKeywords ==
    {Pred(<<"", "incident">>, SetV({1})),
     Pred(<<"", "within">>, SetV({0, 1})),
     Pred(<<"", "between">>, PairV({0}, {1, 2})),
     Pred(<<"", "source", "lt">>, IntV(1)),
     Pred(<<"", "target">>, IntV(1)),
     Pred(<<"weight", "gt">>, IntV(10)),
     Pred(<<"", "count", "multiple", "ge">>, IntV(2))}

VertexKeywords ==
    {Pred(<<"age", "gt">>, IntV(20)),
     Pred(<<"age", "lt">>, IntV(35)),
     Pred(<<"", "degree", "ge">>, IntV(2))}

KeywordLists(k) ==
    UNION {[1 .. n -> IF k = "es" THEN EdgeKeywords ELSE VertexKeywords] : n \in 1 .. MaxKw}

\* g.vs or g.es, or a narrowed view of it, after g.vs["age"] = AgeValues
\* and g.es["weight"] = WeightValues
InitAttributed ==
    /\ vcount = NV
    /\ directed \in BOOLEAN
    /\ edges \in Graphs
    /\ vattrs = [a \in {<<"age">>} |-> Broadcast(AgeValues, NV)]
    /\ eattrs = [a \in {<<"weight">>} |-> Broadcast(WeightValues, ecount(edges))]
    /\ kind \in {"vs", "es"}
    /\ self \in Views(IF kind = "es" THEN ecount(edges) ELSE NV)
    /\ call = "none"
    /\ args = <<>>
    /\ kwds = <<>>
    /\ compiled = <<>>
    /\ res = NoResult
    /\ pc = "idle"

NextChain == \E ps \in KeywordLists(kind) : Select(ps)
SpecChain == InitAttributed /\ [][NextChain]_vars

\* ------------------------------------------------------------ claim helpers
\* How often x occurs in the sequence s.
Count(s, x) == Cardinality({i \in DOMAIN s : s[i] = x})

\* The call has returned and had exactly one keyword, whose name is kw.
Called(kw) == pc = "done" /\ Len(kwds) = 1 /\ kwds[1].kw = kw

\* The result is a view that holds every edge of K as often as the input
\* view holds it, and no other edge.
Keeps(K) ==
    /\ res.ok
    /\ \A e \in EdgeIds(edges) :
          Count(res.idx, e) = IF e \in K THEN Count(self.idx, e) ELSE 0

Touches(e, S) == source(edges, e) \in S \/ target(edges, e) \in S
Inside(e, S) == source(edges, e) \in S /\ target(edges, e) \in S
Joins(e, S1, S2) ==
    \/ source(edges, e) \in S1 /\ target(edges, e) \in S2
    \/ target(edges, e) \in S1 /\ source(edges, e) \in S2

\* The subject and the operator a well-formed reserved keyword names:
\* <<"", subject>> or <<"", subject, operator>>.
Subject(kw) == kw[2]
Operator(kw) == IF Len(kw) = 3 THEN kw[3] ELSE "eq"

\* The endpoint of edge e the keyword names.
Endpoint(kw, e) ==
    IF Subject(kw) \in {"source", "from"} THEN source(edges, e) ELSE target(edges, e)

\* operator(a, operand), for an operand of the operator's type
Holds(op, a, val) ==
    CASE op = "eq" -> a = val.i
      [] op = "ne" -> a /= val.i
      [] op = "lt" -> a < val.i
      [] op = "gt" -> a > val.i
      [] op = "le" -> a <= val.i
      [] op = "ge" -> a >= val.i
      [] op = "in" -> a \in val.s
      [] op = "notin" -> a \notin val.s

\* The operand is of the operator's type: a set for in and notin, an
\* integer for the others.
Typed(p) == (Operator(p.kw) \in {"in", "notin"}) <=> (p.val.k = "set")

IsEndpointKw(kw) == Len(kw) >= 2 /\ kw[1] = "" /\ kw[2] \in {"source", "from", "target", "to"}

Elements(s) == {s[i] : i \in DOMAIN s}

StrictlyIncreasing(s) == \A i, j \in DOMAIN s : i < j => s[i] < s[j]

\* The non-full views that hold every edge exactly once.
OnceEach(n) == {View(f, FALSE) : f \in SetOrders(0 .. (n - 1))}

\* The vertices an undirected endpoint keyword asks for.
Asked(val) == IF val.k = "int" THEN {val.i} ELSE val.s

\* Element x of the graph satisfies the keyword p, as the specification
\* defines each subject.
Satisfies(x, p) ==
    CASE p.kw = <<"", "incident">> -> Touches(x, p.val.s)
      [] p.kw = <<"", "within">> -> Inside(x, p.val.s)
      [] p.kw = <<"", "between">> -> Joins(x, p.val.a, p.val.b)
      [] IsEndpointKw(p.kw) ->
            IF directed THEN Holds(Operator(p.kw), Endpoint(p.kw, x), p.val)
            ELSE Touches(x, Asked(p.val))
      [] p.kw[1] = "weight" -> Holds(p.kw[2], eattrs[<<"weight">>][x + 1], p.val)
      [] p.kw[1] = "age" -> Holds(p.kw[2], vattrs[<<"age">>][x + 1], p.val)
      [] p.kw[1] = "" /\ p.kw[2] = "count" ->
            Holds(p.kw[4], Cardinality({f \in EdgeIds(edges) : SameEnds(directed, edges, x, f)}), p.val)
      [] p.kw[1] = "" /\ p.kw[2] = "degree" ->
            Holds(p.kw[3], Cardinality({f \in EdgeIds(edges) : source(edges, f) = x})
                           + Cardinality({f \in EdgeIds(edges) : target(edges, f) = x}), p.val)

\* a is b with some of its positions left out.
RECURSIVE IsSubsequence(_, _)
IsSubsequence(a, b) ==
    IF a = <<>> THEN TRUE
    ELSE IF b = <<>> THEN FALSE
    ELSE IF Head(a) = Head(b) THEN IsSubsequence(Tail(a), Tail(b))
    ELSE IsSubsequence(a, Tail(b))

\* ---------------------------------------------------------------------- C1
\* C1: for every view and every list of keywords of one select() call, the
\* result holds exactly the positions of the view whose element satisfies
\* every keyword, in the view's order.
SelectIsConjunction ==
    (pc = "done" /\ res.ok) =>
        res.idx = SelectSeq(self.idx, LAMBDA x : \A i \in DOMAIN kwds : Satisfies(x, kwds[i]))

\* --------------------------------------------------------------------- C10
\* C10: when the view is not full, the result of every keyword (stored
\* attribute, computed subject, reserved edge subject) is an
\* order-preserving subsequence of the input view.
NonFullKeepsOrder ==
    (pc = "done" /\ ~self.all /\ res.ok) => IsSubsequence(res.idx, self.idx)

\* Two keywords ran on a non-full edge view that lists two different edges
\* in decreasing order, and both edges survived.
NonFullWitness ==
    /\ pc = "done" /\ kind = "es" /\ ~self.all /\ res.ok /\ Len(kwds) = 2
    /\ Len(self.idx) = 2 /\ self.idx[1] > self.idx[2]
    /\ res.idx = self.idx
    /\ kwds[1].kw = <<"", "within">>

\* ---------------------------------------------------------------------- C2
\* C2: for _incident, _within, _between and, on a directed graph,
\* _source/_target with eq, select on the full edge view returns the same
\* set of absolute edge ids as select on any non-full view that holds every
\* edge exactly once.
OptimizedMatchesNaive ==
    (pc = "done" /\ self.all /\ (IsEndpointKw(kwds[1].kw) => directed /\ Typed(kwds[1]))) =>
        \A w \in OnceEach(ecount(edges)) :
            \A r \in select("es", directed, edges, vattrs, eattrs, Ok(w), kwds) :
                r.ok = res.ok /\ Elements(r.idx) = Elements(res.idx)

\* The optimized branch of a directed graph's full view kept one edge and
\* dropped another, for an endpoint keyword.
OptimizedWitness ==
    /\ pc = "done" /\ self.all /\ directed /\ res.ok
    /\ IsEndpointKw(kwds[1].kw) /\ Typed(kwds[1])
    /\ res.idx /= <<>> /\ Len(res.idx) < Len(self.idx)

\* ---------------------------------------------------------------------- C9
\* C9: on the full edge view, the result of select with _incident, _within,
\* _between or an endpoint eq lists its edge ids in strictly increasing
\* order.
FullViewResultIncreasing ==
    (pc = "done" /\ self.all /\ res.ok) => StrictlyIncreasing(res.idx)

\* ---------------------------------------------------------------------- C6
\* C6: on a directed graph, select with _source/_from/_target/_to and any of
\* the eight operators keeps exactly the edges of the view, in view order,
\* whose source/target stands in that relation to the operand; so does the
\* eq shortcut of the full view.
EndpointKeepsByOperator ==
    (pc = "done" /\ directed /\ Typed(kwds[1])) =>
        /\ res.ok
        /\ res.idx = SelectSeq(self.idx,
               LAMBDA e : Holds(Operator(kwds[1].kw), Endpoint(kwds[1].kw, e), kwds[1].val))

\* The eq shortcut ran for _target on a full view and kept one edge, whose
\* source is not the operand, and dropped another.
EndpointWitness ==
    /\ pc = "done" /\ directed /\ self.all /\ res.ok
    /\ Subject(kwds[1].kw) \in {"target", "to"} /\ Operator(kwds[1].kw) = "eq"
    /\ kwds[1].val.k = "int"
    /\ Len(res.idx) = 1 /\ Len(self.idx) > 1
    /\ source(edges, res.idx[1]) /= kwds[1].val.i

\* ---------------------------------------------------------------------- C7
\* The endpoint keyword with source and target, from and to exchanged.
Mirror(kw) ==
    [kw EXCEPT ![2] = CASE kw[2] = "source" -> "target"
                        [] kw[2] = "target" -> "source"
                        [] kw[2] = "from" -> "to"
                        [] kw[2] = "to" -> "from"]

UndirectedOrderingFails ==
    (pc = "done" /\ ~directed /\ Operator(kwds[1].kw) \notin {"eq", "in"}) =>
        res = Raise("RuntimeError")

\* A _to_ne keyword on a non-empty view, followed by a keyword that would
\* have succeeded, failed.
UnsupportedWitness ==
    /\ pc = "done" /\ ~directed /\ Len(kwds) = 2 /\ self.idx /= <<>>
    /\ kwds[1].kw = <<"", "to", "ne">> /\ kwds[2].kw = <<"", "incident">>
    /\ ~res.ok /\ res.err = "RuntimeError"

\* ---------------------------------------------------------------------- C3
\* C3: select(_incident=S) keeps an edge of the view iff its source or its
\* target is in S, on directed and undirected graphs; on the directed
\* triangle (0,1),(1,2),(2,0) the full view with S = {1} gives the edges
\* (0,1) and (1,2), that is the edge ids 0 and 1.
IncidentKeepsEitherEndpoint ==
    Called(<<"", "incident">>) =>
        /\ Keeps({e \in EdgeIds(edges) : Touches(e, kwds[1].val.s)})
        /\ (directed /\ edges = Triangle /\ self.all /\ kwds[1].val.s = {1}
                => res.idx = <<0, 1>>)

\* ---------------------------------------------------------------------- C4
\* C4: select(_within=S) keeps an edge of the view iff both its source and
\* its target are in S, for every graph, every S and full and non-full views.
WithinKeepsBothEndpoints ==
    Called(<<"", "within">>) => Keeps({e \in EdgeIds(edges) : Inside(e, kwds[1].val.s)})

\* _within on the full view of a directed graph kept a self-loop and
\* dropped an edge with one endpoint outside S.
WithinWitness ==
    /\ Called(<<"", "within">>) /\ res.ok /\ directed /\ self.all
    /\ \E i \in DOMAIN res.idx : source(edges, res.idx[i]) = target(edges, res.idx[i])
    /\ \E e \in EdgeIds(edges) : Touches(e, kwds[1].val.s) /\ Count(res.idx, e) = 0

\* ---------------------------------------------------------------------- C5
\* C5: select(_between=(S1,S2)) keeps an edge of the view iff its source is
\* in S1 and its target in S2, or its target in S1 and its source in S2.
BetweenKeepsJoiningEdges ==
    Called(<<"", "between">>) =>
        Keeps({e \in EdgeIds(edges) : Joins(e, kwds[1].val.a, kwds[1].val.b)})

\* _between with overlapping sets on a non-full view with a repeated edge
\* kept an edge that runs from S2 to S1 and dropped another edge.
BetweenWitness ==
    /\ Called(<<"", "between">>) /\ res.ok /\ ~self.all /\ directed
    /\ kwds[1].val.a \cap kwds[1].val.b /= {}
    /\ \E i \in DOMAIN res.idx :
          /\ source(edges, res.idx[i]) \notin kwds[1].val.a
          /\ Count(res.idx, res.idx[i]) = 2

\* --------------------------------------------------------------------- C11
\* The positional arguments of a find(): none, or one local position (the
\* largest is past the end of every non-full view of the model).
FindArgs == {<<>>} \cup {<<IntV(i)>> : i \in 0 .. MaxViewLen}

\* The keyword lists of a find(): none, one keyword of each kind of subject,
\* and two keywords.
FindKeywords(k) ==
    IF k = "es"
    THEN {<<>>,
          <<Pred(<<"", "incident">>, SetV({1}))>>,
          <<Pred(<<"", "within">>, SetV({0, 1}))>>,
          <<Pred(<<"weight", "gt">>, IntV(10))>>,
          <<Pred(<<"weight", "gt">>, IntV(10)), Pred(<<"", "target">>, IntV(1))>>}
    ELSE {<<>>,
          <<Pred(<<"age", "gt">>, IntV(20))>>,
          <<Pred(<<"", "degree", "ge">>, IntV(2))>>,
          <<Pred(<<"age", "lt">>, IntV(35)), Pred(<<"", "degree", "ge">>, IntV(2))>>}

NextFind == \E as \in FindArgs, ps \in FindKeywords(kind) : Find(as, ps)
SpecFind == InitAttributed /\ [][NextFind]_vars

\* What select() gives for the arguments of the call that has just returned.
Selected == select(kind, directed, edges, vattrs, eattrs, positional(self, args), kwds)

\* The outcome is the one a find() has when select() gives r: the first
\* element of r, the not-found error for an empty r, the error of r.
FirstOf(r) ==
    IF ~r.ok THEN res = r
    ELSE IF r.idx = <<>> THEN ~res.ok /\ res.err = "ValueError"
    ELSE res.ok /\ res.idx = <<r.idx[1]>>

Names == {"a", "b"}

\* g.vs of a graph whose vertices have a name and an age, or a narrowed
\* view of it
InitNamed ==
    /\ vcount = NV
    /\ directed = FALSE
    /\ edges = Triangle
    /\ vattrs \in {[a \in {<<"name">>, <<"age">>} |->
                        IF a = <<"name">> THEN f ELSE Broadcast(AgeValues, NV)] :
                    f \in [1 .. NV -> Names]}
    /\ eattrs = <<>>
    /\ kind = "vs"
    /\ self \in Views(NV)
    /\ call = "none"
    /\ args = <<>>
    /\ kwds = <<>>
    /\ compiled = <<>>
    /\ res = NoResult
    /\ pc = "idle"

\* The keyword lists of a find() by name: the name alone, as name and as
\* name_eq, and the name with another keyword before or after it.
NameKeywords ==
    UNION {{<<Pred(<<"name">>, StrV(n))>>,
            <<Pred(<<"name", "eq">>, StrV(n))>>,
            <<Pred(<<"name">>, StrV(n)), Pred(<<"age", "gt">>, IntV(20))>>,
            <<Pred(<<"age", "lt">>, IntV(30)), Pred(<<"name", "eq">>, StrV(n))>>} : n \in Names}

NextName == \E ps \in NameKeywords : Find(<<>>, ps)
SpecName == InitNamed /\ [][NextName]_vars

\* C12: where find() takes the name shortcut (no positional argument, a
\* string name or name_eq keyword), it returns the vertex, or the not-found
\* failure, that the scan select(**kwds)[0] over the same view gives, also
\* with further keywords, shared names and non-full views.
NameShortcutIsNaive ==
    (pc = "done" /\ call = "find" /\ args = <<>>
        /\ \E i \in DOMAIN kwds : kwds[i].kw \in {<<"name">>, <<"name", "eq">>}
                                   /\ kwds[i].val.k = "str") =>
        \E r \in select("vs", directed, edges, vattrs, eattrs, Ok(self), kwds) : FirstOf(r)

\* --------------------------------------------------------------------- C13
\* The local positions a caller passes: the last one is past the end of
\* every non-full view of the model.
Locals == 0 .. MaxViewLen
IndexLists == {<<>>} \cup {<<i>> : i \in Locals} \cup {<<i, j>> : i \in Locals, j \in Locals}

\* select(L) with a list, select(i) and select(i, j) with integers, and
\* select() without positional arguments
PositionalArgs ==
    {<<>>}
    \cup {<<ListV(L)>> : L \in IndexLists}
    \cup {[i \in DOMAIN L |-> IntV(L[i])] : L \in IndexLists \ {<<>>}}

\* The keywords that follow the positional arguments: none, a stored
\* attribute, a reserved edge subject.
NarrowKeywords(k) ==
    IF k = "es"
    THEN {<<>>, <<Pred(<<"weight", "gt">>, IntV(10))>>, <<Pred(<<"", "within">>, SetV({0, 1}))>>}
    ELSE {<<>>, <<Pred(<<"age", "gt">>, IntV(20))>>}

NextNarrow == \E as \in PositionalArgs, ps \in NarrowKeywords(kind) : SelectArgs(as, ps)
SpecNarrow == InitAttributed /\ [][NextNarrow]_vars

\* The integers of the positional arguments of the call, in call order.
ArgList == IF args[1].k = "list" THEN args[1].l ELSE [i \in DOMAIN args |-> args[i].i]

\* Every integer of L is a position of the view the call was made on.
InRange(L) == \A i \in DOMAIN L : L[i] >= 0 /\ L[i] < Len(self.idx)

\* The element of the view at each position of L, in the order of L.
Picked(L) == [i \in DOMAIN L |-> self.idx[L[i] + 1]]

\* C13: narrowing a view v by integers L (one list or several integer
\* arguments) gives [v[L[0]], v[L[1]], ...] in that order, which is L itself
\* on the full view; a stored-attribute keyword after it keeps, by its own
\* internal narrowing, the elements of that list that satisfy it, in order.
NarrowIsLocal ==
    (pc = "done" /\ call = "select" /\ args /= <<>> /\ InRange(ArgList)
        /\ \A i \in DOMAIN kwds : ~IsSpecial(kwds[i].kw)) =>
        /\ res.ok
        /\ res.idx = SelectSeq(Picked(ArgList),
               LAMBDA x : \A i \in DOMAIN kwds : Satisfies(x, kwds[i]))
        /\ (self.all /\ kwds = <<>> => res.idx = ArgList)

\* select([1, 0]) on a non-full view of two different elements returned
\* them in exchanged order, which is not the list [1, 0] itself.
NarrowWitness ==
    /\ pc = "done" /\ call = "select" /\ ~self.all /\ kwds = <<>>
    /\ args = <<ListV(<<1, 0>>)>>
    /\ Len(self.idx) = 2 /\ self.idx[1] /= self.idx[2]
    /\ res.ok /\ res.idx = <<self.idx[2], self.idx[1]>> /\ res.idx /= <<1, 0>>

\* --------------------------------------------------------------------- C14
\* C14: narrowing a view of length n with a local index >= n fails with the
\* index-out-of-range error and gives no partial result; when the caller's
\* indices are in range, no index a keyword of the call produces fails so.
OutOfRangeFails ==
    (pc = "done" /\ call = "select") =>
        IF args /= <<>> /\ ~InRange(ArgList)
        THEN res = Raise("IndexOutOfRange")
        ELSE res.err /= "IndexOutOfRange"

\* select(0, n) on a non-empty view of length n, followed by a keyword,
\* failed.
OutOfRangeWitness ==
    /\ pc = "done" /\ call = "select" /\ self.idx /= <<>> /\ kwds /= <<>>
    /\ Len(args) = 2 /\ args[1] = IntV(0) /\ args[2] = IntV(Len(self.idx))
    /\ res = Raise("IndexOutOfRange")

\* --------------------------------------------------------------------- C15
\* The longest keyword of the model, in pieces between underscores.
MaxPieces == 3

\* The pieces keywords are made of: the empty piece (a leading, trailing or
\* doubled underscore), attribute and method names, operator names.
Pieces == {"", "a", "b", "my", "attr", "weight", "source", "gt", "in", "eq", "notin", "ne"}

\* Every keyword of at most MaxPieces pieces but the empty string.
Keywords == UNION {[1 .. n -> Pieces] : n \in 1 .. MaxPieces} \ {<<"">>}

\* A select() of g.vs or g.es that is about to read its next keyword
InitParse ==
    /\ vcount = NV
    /\ directed \in BOOLEAN
    /\ edges = Triangle
    /\ vattrs = <<>>
    /\ eattrs = <<>>
    /\ kind \in {"vs", "es"}
    /\ self = FullView(IF kind = "es" THEN ecount(edges) ELSE NV)
    /\ call = "none"
    /\ args = <<>>
    /\ kwds = <<>>
    /\ compiled = <<>>
    /\ res = NoResult
    /\ pc = "idle"

NextParse == \E kw \in Keywords : Compile(kw)
SpecParse == InitParse /\ [][NextParse]_vars

\* The eight operator names.
OperatorNames == {"eq", "ne", "lt", "gt", "le", "ge", "in", "notin"}

\* The keyword has an underscore after its first character.
SeparatorInside(kw) == Len(kw) >= 3 \/ (Len(kw) = 2 /\ kw[1] /= "")

\* The keyword the compiler was given.
Given == kwds[1].kw

\* C15: a keyword with an underscore after its first character is split at
\* its last underscore; if the suffix is an operator name the subject is the
\* prefix and the operator the suffix, otherwise the subject is the whole
\* keyword and the operator is eq: weight_gt -> (weight, gt),
\* my_attr -> (my_attr, eq), a_b_gt -> (a_b, gt).
SplitsAtLastUnderscore ==
    (pc = "done" /\ SeparatorInside(Given)) =>
        /\ compiled = IF Given[Len(Given)] \in OperatorNames
                      THEN [attr |-> SubSeq(Given, 1, Len(Given) - 1), op |-> Given[Len(Given)]]
                      ELSE [attr |-> Given, op |-> "eq"]
        /\ (Given = <<"weight", "gt">> => compiled = [attr |-> <<"weight">>, op |-> "gt"])
        /\ (Given = <<"my", "attr">> => compiled = [attr |-> <<"my", "attr">>, op |-> "eq"])
        /\ (Given = <<"a", "b", "gt">> => compiled = [attr |-> <<"a", "b">>, op |-> "gt"])

\* VertexSeq.select compiled my_attr to the subject my_attr with eq.
SplitWitness ==
    /\ pc = "done" /\ kind = "vs" /\ Given = <<"my", "attr">>
    /\ compiled = [attr |-> <<"my", "attr">>, op |-> "eq"]

\* --------------------------------------------------------------------- C16
\* C16: a keyword with no underscore, or with one underscore that is its
\* first character, is compiled to the whole keyword as subject and eq as
\* operator, also when the text after the underscore is an operator name:
\* _gt -> (_gt, eq), _in -> (_in, eq), _eq -> (_eq, eq), a -> (a, eq).
BareKeywordIsEq ==
    (pc = "done" /\ ~SeparatorInside(Given)) =>
        /\ compiled = [attr |-> Given, op |-> "eq"]
        /\ (IsSpecial(Given) <=> IsSpecial(compiled.attr))

\* EdgeSeq.select compiled _gt to the computed subject gt with eq.
BareWitness ==
    /\ pc = "done" /\ kind = "es" /\ Given = <<"", "gt">>
    /\ compiled = [attr |-> <<"", "gt">>, op |-> "eq"]

\* --------------------------------------------------------------------- C17
\* What select(**{P}) followed by select(**{Q}) on its result may give.
Chained(P, Q) ==
    UNION {select(kind, directed, edges, vattrs, eattrs, r, <<Q>>) :
              r \in select(kind, directed, edges, vattrs, eattrs, Ok(self), <<P>>)}

\* What one select() call with the keywords P and Q, in this order, may give.
Together(P, Q) == select(kind, directed, edges, vattrs, eattrs, Ok(self), <<P, Q>>)

\* C17: for every view and every two keywords P and Q, the two chained
\* calls in either order and the one call with both keywords in either
\* order give the same set of absolute indices (or all fail), for vertex
\* views and for edge views, reserved edge subjects included.
OrderIsIrrelevant ==
    (pc = "done" /\ call = "select" /\ Len(kwds) = 2) =>
        \A r \in Chained(kwds[1], kwds[2]) \cup Chained(kwds[2], kwds[1])
                 \cup Together(kwds[1], kwds[2]) \cup Together(kwds[2], kwds[1]) :
            r.ok = res.ok /\ Elements(r.idx) = Elements(res.idx)

\* On the full edge view of a directed graph, _within (on its optimized
\* branch, being first) and then weight_gt kept one edge and dropped
\* another.
OrderWitness ==
    /\ pc = "done" /\ call = "select" /\ kind = "es" /\ directed /\ self.all
    /\ Len(kwds) = 2 /\ kwds[1].kw = <<"", "within">> /\ kwds[2].kw = <<"weight", "gt">>
    /\ res.ok /\ Len(res.idx) = 1 /\ Len(self.idx) > 1

\* --------------------------------------------------------------------- C18
\* The operands of the stored-attribute keywords: values of the examples
\* and values between them.
AttrOperands == {10, 20, 25, 35}

\* attr_op=x for each of the eight operators and attr=x, on the attribute
\* of the view's kind
AttrPreds(k) ==
    LET attr == IF k = "es" THEN "weight" ELSE "age"
    IN  {Pred(<<attr, op>>, IntV(x)) : op \in {"eq", "ne", "lt", "gt", "le", "ge"},
                                       x \in AttrOperands}
        \cup {Pred(<<attr, op>>, SetV(S)) : op \in {"in", "notin"}, S \in {{}, {10, 25}}}
        \cup {Pred(<<attr>>, IntV(25))}

\* g.vs or g.es, or a narrowed view of it, of a graph with as many vertices
\* as the example has ages, after g.vs["age"] = AgeValues and
\* g.es["weight"] = WeightValues
InitAges ==
    /\ vcount = Len(AgeValues)
    /\ directed \in BOOLEAN
    /\ edges \in Graphs
    /\ vattrs = [a \in {<<"age">>} |-> AgeValues]
    /\ eattrs = [a \in {<<"weight">>} |-> Broadcast(WeightValues, ecount(edges))]
    /\ kind \in {"vs", "es"}
    /\ self \in Views(IF kind = "es" THEN ecount(edges) ELSE vcount)
    /\ call = "none"
    /\ args = <<>>
    /\ kwds = <<>>
    /\ compiled = <<>>
    /\ res = NoResult
    /\ pc = "idle"

NextAges == (\E p \in AttrPreds(kind) : Select(<<p>>)) \/ Then
SpecAges == InitAges /\ [][NextAges]_vars

\* The stored value of the keyword's attribute for the element x.
Stored(p, x) == (IF kind = "es" THEN eattrs ELSE vattrs)[<<p.kw[1]>>][x + 1]

\* C18: select with a stored-attribute keyword attr_op=x keeps exactly the
\* elements of the view whose stored value a satisfies op(a, x), in view
\* order; with age = [10,25,30,15,40], age_gt=20 on the full vertex view
\* gives [1,2,4] and age_lt=35 on that result gives [1,2].
AttributeKeepsByOperator ==
    (pc = "done" /\ call = "select") =>
        /\ res.ok
        /\ res.idx = SelectSeq(self.idx,
               LAMBDA x : Holds(IF Len(kwds[1].kw) = 2 THEN kwds[1].kw[2] ELSE "eq",
                                Stored(kwds[1], x), kwds[1].val))
        /\ (kind = "vs" /\ self.all /\ kwds[1] = Pred(<<"age", "gt">>, IntV(20))
                => res.idx = <<1, 2, 4>>)
        /\ (kind = "vs" /\ self.idx = <<1, 2, 4>> /\ kwds[1] = Pred(<<"age", "lt">>, IntV(35))
                => res.idx = <<1, 2>>)

\* age_lt=35 on the view [1,2,4], which a select() returned, gave [1,2].
AttributeWitness ==
    /\ pc = "done" /\ call = "select" /\ kind = "vs"
    /\ self = View(<<1, 2, 4>>, FALSE) /\ kwds = <<Pred(<<"age", "lt">>, IntV(35))>>
    /\ res.ok /\ res.idx = <<1, 2>>

\* --------------------------------------------------------------------- C19
\* The keyword lists of the calls whose effect on the graph is checked:
\* stored attributes, and computed subjects that name a method of Graph.
FrameKeywords(k) ==
    IF k = "es"
    THEN {<<Pred(<<"weight", "gt">>, IntV(10))>>,
          <<Pred(<<"", "count", "multiple", "ge">>, IntV(2))>>,
          <<Pred(<<"", "delete", "edges">>, IntV(0))>>,
          <<Pred(<<"weight", "gt">>, IntV(10)), Pred(<<"", "delete", "edges">>, IntV(0))>>}
    ELSE {<<Pred(<<"age", "gt">>, IntV(20))>>,
          <<Pred(<<"", "degree", "ge">>, IntV(2))>>}

NextFrame ==
    \/ \E ps \in FrameKeywords(kind) : Select(ps)
    \/ \E ps \in FrameKeywords(kind) : Find(<<>>, ps)
SpecFrame == InitAttributed /\ [][NextFrame]_vars

\* C19: no select() or find() call, with any keyword (a computed subject
\* that starts with the underscore included), changes the topology of the
\* graph: the number of vertices, the number of edges and the endpoints of
\* every edge are after the call what they were before it.
TopologyUnchanged ==
    [][vcount' = vcount /\ directed' = directed /\ edges' = edges]_vars

\* --------------------------------------------------------------------- C20
\* A _between operand that is not a pair.
NotAPair == TripleV({0}, {1}, {2})

\* Keywords that fail (an ordering operator on an endpoint, which undirected
\* graphs do not support; a _between operand of three sets; an attribute
\* that does not exist), keywords that succeed, and a keyword that would
\* change the graph if it were evaluated.
FailKeywords(k) ==
    IF k = "es"
    THEN {Pred(<<"", "to", "lt">>, IntV(1)),
          Pred(<<"", "between">>, NotAPair),
          Pred(<<"color">>, IntV(1)),
          Pred(<<"weight", "gt">>, IntV(10)),
          Pred(<<"", "delete", "edges">>, IntV(0))}
    ELSE {Pred(<<"color">>, IntV(1)),
          Pred(<<"age", "gt">>, IntV(20)),
          Pred(<<"age", "lt">>, IntV(35))}

NextFail == \E ps \in UNION {[1 .. n -> FailKeywords(kind)] : n \in 1 .. MaxKw} : Select(ps)
SpecFail == InitAttributed /\ [][NextFail]_vars

\* The error the keyword p fails with on this graph, by the three kinds of
\* failure of the claim; "none" if it is none of them.
Offence(p) ==
    IF IsEndpointKw(p.kw) /\ ~directed /\ Operator(p.kw) \notin {"eq", "in"}
    THEN "RuntimeError"
    ELSE IF p.kw = <<"", "between">> /\ p.val.k = "tuple" /\ p.val.n /= 2
    THEN "ValueError"
    ELSE IF p.kw[1] /= "" /\ <<p.kw[1]>> \notin DOMAIN (IF kind = "es" THEN eattrs ELSE vattrs)
    THEN "KeyError"
    ELSE "none"

\* The keyword at position n of ps fails, and every keyword before it is
\* evaluated without failure and without effect on the graph.
FirstOffender(ps, n) ==
    /\ Offence(ps[n]) /= "none"
    /\ \A m \in 1 .. (n - 1) :
          Offence(ps[m]) = "none" /\ ps[m].kw /= <<"", "delete", "edges">>

\* C20: when a keyword of a select() with several keywords fails
\* (unsupported operator, invalid _between operand, unknown attribute), the
\* call fails with that keyword's error, whatever the later keywords are
\* (they are not evaluated: a later failure does not show, a later
\* _delete_edges removes nothing), it returns no view, and the view it was
\* called on holds the indices it held before.
FailsAtFirstOffender ==
    [][\A n \in DOMAIN kwds' :
          (call' = "select" /\ FirstOffender(kwds', n)) =>
              /\ ~res'.ok /\ res'.err = Offence(kwds'[n])
              /\ res'.idx = <<>> /\ res'.del = {}
              /\ self' = self
              /\ edges' = edges]_vars

\* weight_gt=10 and then color=1 on a non-empty edge view: the second
\* keyword failed after the first had narrowed the view.
FailWitness ==
    /\ pc = "done" /\ call = "select" /\ kind = "es" /\ Len(self.idx) = 2
    /\ Len(kwds) = 2 /\ kwds[1].kw = <<"weight", "gt">> /\ kwds[2].kw = <<"color">>
    /\ ~res.ok /\ res.err = "KeyError"

\* ---------------------------------------------------------------------
\* C21: the operand check of _between
\* ---------------------------------------------------------------------

\* Operands of _between that are not a pair of vertex sets: one set, three
\* sets, a pair of vertex ids, a set of two vertex ids, a single vertex id.
NotTwoSets ==
    {OneV({0, 1}), TripleV({0}, {1}, {2}), IntsV(0, 1), SetV({0, 1}), SetV({1}), IntV(1)}

BetweenOperands == NotTwoSets \cup {PairV({0}, {1, 2}), PairV({0, 1}, {1})}

NextBetween == \E val \in BetweenOperands : Select(<<Pred(<<"", "between">>, val)>>)
SpecBetween == InitEdges /\ [][NextBetween]_vars

\* C21: select(_between=value) fails with the invalid-operand error
\* (ValueError) for every value that is not a pair of vertex sets.
BetweenRejectsNonPairs ==
    (Called(<<"", "between">>) /\ kwds[1].val \in NotTwoSets)
        => (~res.ok /\ res.err = "ValueError")

\* A pair of vertex ids is turned down, with the error of set(0) instead.
BetweenIntsWitness ==
    /\ Called(<<"", "between">>)
    /\ kwds[1].val = IntsV(0, 1)
    /\ ~res.ok /\ res.err = "TypeError"

\* ---------------------------------------------------------------------
\* C22: writing an attribute through a view
\* ---------------------------------------------------------------------

\* The value of view[name] = value as a sequence: a single integer (or
\* string) is a sequence of length 1.
AsSequence(value) == IF value.k = "list" THEN value.l ELSE <<value.i>>

\* set_attribute that fills the first elements of the graph, whatever the
\* view holds.
set_attributeOfGraph(store, v, values) ==
    LET given == Broadcast(values, Len(v.idx))
    IN  [x \in DOMAIN store |-> IF x <= Len(given) THEN given[x] ELSE store[x]]

\* view[name] = values on the list store of the attribute: the i-th element
\* of the view gets values[i mod k], one element after the other, the other
\* elements of the graph keep their value.
set_attribute(store, v, values) ==
    LET given == Broadcast(values, Len(v.idx))
        at(x) == {j \in DOMAIN v.idx : v.idx[j] = x}
    IN  [x \in DOMAIN store |->
            IF at(x - 1) = {} THEN store[x]
            ELSE given[CHOOSE j \in at(x - 1) : \A h \in at(x - 1) : h <= j]]

\* self[name] = value, for a value no longer than the view
SetAttribute(name, value) ==
    /\ pc = "idle"
    /\ Len(AsSequence(value)) <= Len(self.idx)
    /\ IF kind = "es"
       THEN /\ eattrs' = [eattrs EXCEPT ![name] = set_attribute(@, self, AsSequence(value))]
            /\ UNCHANGED vattrs
       ELSE /\ vattrs' = [vattrs EXCEPT ![name] = set_attribute(@, self, AsSequence(value))]
            /\ UNCHANGED eattrs
    /\ call' = "write"
    /\ args' = <<value>>
    /\ kwds' = <<Pred(name, IntV(0))>>
    /\ pc' = "done"
    /\ UNCHANGED <<vcount, directed, edges, kind, self, compiled, res>>

NewValues == {7, 8}
Written ==
    {IntV(x) : x \in NewValues} \cup {ListV(<<x>>) : x \in NewValues}
        \cup {ListV(<<x, y>>) : x \in NewValues, y \in NewValues}

NextWrite ==
    \E value \in Written : SetAttribute(IF kind = "es" THEN <<"weight">> ELSE <<"age">>, value)
SpecWrite == InitAges /\ [][NextWrite]_vars

\* The list of the attribute the view reads and writes.
StoreOf(va, ea) == IF kind = "es" THEN ea[kwds[1].kw] ELSE va[kwds[1].kw]
InitialStore ==
    IF kind = "es" THEN Broadcast(WeightValues, ecount(edges)) ELSE AgeValues

\* C22: after view[name] = values with k = Len(values) no larger than the
\* view, every element outside the view has the value it had, every element
\* of the view has values[i mod k] for a position i it has in the view (its
\* only position when the view holds it once), and the other list and the
\* graph are as they were.
WriteIsCyclic ==
    (pc = "done" /\ call = "write") =>
        LET values == AsSequence(args[1])
            k == Len(values)
            new == StoreOf(vattrs, eattrs)
        IN  /\ \A x \in DOMAIN new :
                   (\A j \in DOMAIN self.idx : self.idx[j] /= x - 1) => new[x] = InitialStore[x]
            /\ \A j \in DOMAIN self.idx :
                   \E h \in DOMAIN self.idx :
                       /\ self.idx[h] = self.idx[j]
                       /\ new[self.idx[j] + 1] = values[((h - 1) % k) + 1]
            /\ Len(new) = Len(InitialStore)
            /\ (IF kind = "es" THEN vattrs[<<"age">>] ELSE eattrs[<<"weight">>])
                   = (IF kind = "es" THEN AgeValues ELSE Broadcast(WeightValues, ecount(edges)))

\* Two values written through the full view of five vertices.
WriteWitness ==
    /\ pc = "done" /\ call = "write" /\ kind = "vs"
    /\ self = FullView(vcount)
    /\ args[1] = ListV(<<7, 8>>)
    /\ vattrs[<<"age">>] = <<7, 8, 7, 8, 7>>

\* One value written through a narrowed view of two vertices.
NarrowWriteWitness ==
    /\ pc = "done" /\ call = "write" /\ kind = "vs"
    /\ self.idx = <<3, 1>>
    /\ args[1] = IntV(8)
    /\ vattrs[<<"age">>] = <<10, 8, 30, 8, 40>>

\* ---------------------------------------------------------------------
\* C23: select() without arguments
\* ---------------------------------------------------------------------

NextIdentity == Select(<<>>) \/ Then
SpecIdentity == InitAttributed /\ [][NextIdentity]_vars

\* C23: select() with no argument returns a view with the indices of the
\* view it was called on, position by position, and calling it again on the
\* returned view, any number of times, never changes the indices.
SelectNothingIsIdentity ==
    [][/\ (call' = "select" /\ args' = <<>> /\ kwds' = <<>>)
              => (res'.ok /\ res'.idx = self.idx)
       /\ self'.idx = self.idx]_vars

\* select() has returned a reordered view of two elements as it was.
IdentityWitness ==
    /\ pc = "done" /\ call = "select" /\ args = <<>> /\ kwds = <<>>
    /\ self.idx = <<1, 0>> /\ ~self.all
    /\ res.ok /\ res.idx = <<1, 0>>

\* ---------------------------------------------------------------------
\* C24: positional arguments first, keywords afterwards
\* ---------------------------------------------------------------------

\* The outcomes of two calls in a row: v.select(*as), then select(**ps) on
\* the view it returned.
TwoCalls(v, as, ps) ==
    LET r == positional(v, as)
    IN  IF ~r.ok THEN {r}
        ELSE select(kind, directed, edges, vattrs, eattrs, Ok(View(r.idx, r.all)), ps)

\* C24: select(*args, **kwds) on the view self returns what
\* self.select(*args).select(**kwds) returns: the positional arguments are
\* local positions of self, and the keywords see the view they left.
PositionalThenKeywords ==
    (pc = "done" /\ call = "select") => res \in TwoCalls(self, args, kwds)

\* A call where the order shows: on the view <<0, 2>> the position 1 is the
\* element 2, which the keyword keeps; the keyword alone leaves one element,
\* which has no position 1.
PositionalFirstWitness ==
    /\ pc = "done" /\ call = "select" /\ kind = "vs"
    /\ self.idx = <<0, 2>>
    /\ args = <<IntV(1)>>
    /\ Len(kwds) = 1 /\ kwds[1].kw = <<"age", "gt">> /\ kwds[1].val = IntV(20)
    /\ res.ok /\ res.idx = <<2>>

\* ---------------------------------------------------------------------
\* C25: computed subjects are evaluated on the current view
\* ---------------------------------------------------------------------

ComputedArgs == {<<>>, <<IntV(1)>>, <<ListV(<<1, 0>>)>>, <<ListV(<<1, 1>>)>>}

ComputedKeywords(k) ==
    IF k = "es"
    THEN {<<Pred(<<"", "count", "multiple", "ge">>, IntV(2))>>,
          <<Pred(<<"", "count", "multiple", "eq">>, IntV(1))>>,
          <<Pred(<<"weight", "gt">>, IntV(10)), Pred(<<"", "count", "multiple", "ge">>, IntV(2))>>,
          <<Pred(<<"", "target">>, IntV(1)), Pred(<<"", "count", "multiple", "eq">>, IntV(1))>>}
    ELSE {<<Pred(<<"", "degree", "ge">>, IntV(2))>>,
          <<Pred(<<"", "degree", "eq">>, IntV(1))>>,
          <<Pred(<<"age", "gt">>, IntV(20)), Pred(<<"", "degree", "ge">>, IntV(2))>>,
          <<Pred(<<"", "degree", "ge">>, IntV(1)), Pred(<<"", "degree", "lt">>, IntV(2))>>}

NextComputed == \E as \in ComputedArgs, ps \in ComputedKeywords(kind) : SelectArgs(as, ps)
SpecComputed == InitAttributed /\ [][NextComputed]_vars

\* C25: a call with a computed subject (_degree on vertices, _count_multiple
\* on edges) after positional arguments and earlier keywords keeps, in the
\* order the positional arguments left, exactly the elements whose own
\* computed value and whose own stored values satisfy every keyword.
ComputedOnCurrentView ==
    (pc = "done" /\ call = "select") =>
        LET base == positional(self, args)
        IN  IF ~base.ok THEN res = base
            ELSE /\ res.ok
                 /\ res.idx = SelectSeq(base.idx,
                                LAMBDA x : \A i \in DOMAIN kwds : Satisfies(x, kwds[i]))

\* On the path 0-1-2 the keyword age_gt=20 leaves <<1, 2>> of the full view;
\* _degree_ge=2 then keeps vertex 1, whose degree is 2.  The degrees of the
\* full view, <<1, 2, 1>>, read at the positions of <<1, 2>> would keep
\* vertex 2.
ComputedWitness ==
    /\ pc = "done" /\ call = "select" /\ kind = "vs" /\ self.all
    /\ edges = <<<<0, 1>>, <<1, 2>>>>
    /\ args = <<>>
    /\ kwds = <<Pred(<<"age", "gt">>, IntV(20)), Pred(<<"", "degree", "ge">>, IntV(2))>>
    /\ res.ok /\ res.idx = <<1>>

\* ---------------------------------------------------------------------
\* C26: _incident, _within and _between ignore the operator
\* ---------------------------------------------------------------------

\* The three subjects with some operands, without a suffix and with each of
\* the eight operators as suffix.
Suffixes == {"lt", "gt", "le", "ge", "eq", "ne", "in", "notin"}
SuffixOperands(subject) ==
    IF subject = <<"", "between">>
    THEN {PairV({0}, {1, 2}), PairV({1}, {1}), TripleV({0}, {1}, {2})}
    ELSE {SetV({1}), SetV({0, 1})}
SuffixPreds ==
    {Pred(kw, val) : kw \in {<<"", "incident">>} \cup {<<"", "incident", op>> : op \in Suffixes},
                     val \in SuffixOperands(<<"", "incident">>)}
    \cup {Pred(kw, val) : kw \in {<<"", "within">>} \cup {<<"", "within", op>> : op \in Suffixes},
                          val \in SuffixOperands(<<"", "within">>)}
    \cup {Pred(kw, val) : kw \in {<<"", "between">>} \cup {<<"", "between", op>> : op \in Suffixes},
                          val \in SuffixOperands(<<"", "between">>)}

NextSuffix == \E p \in SuffixPreds : Select(<<p>>)
SpecSuffix == InitEdges /\ [][NextSuffix]_vars

\* The keyword of the call without its suffix.
Bare == <<Pred(SubSeq(kwds[1].kw, 1, 2), kwds[1].val)>>

\* C26: for _incident, _within and _between, with any of the eight operators
\* as suffix or with none, the call has the outcomes of the keyword written
\* without a suffix (views and errors alike), and returned one of them.
SuffixIsIgnored ==
    (pc = "done" /\ call = "select") =>
        /\ select(kind, directed, edges, vattrs, eattrs, Ok(self), kwds)
               = select(kind, directed, edges, vattrs, eattrs, Ok(self), Bare)
        /\ res \in select(kind, directed, edges, vattrs, eattrs, Ok(self), Bare)

\* _incident_notin={1} has kept the one edge at vertex 1.
SuffixWitness ==
    /\ pc = "done" /\ call = "select"
    /\ kwds[1].kw = <<"", "incident", "notin">> /\ kwds[1].val = SetV({1})
    /\ directed /\ edges = <<<<0, 1>>, <<1, 2>>>> /\ self.all
    /\ res.ok /\ res.idx = <<1>>

\* ---------------------------------------------------------------------
\* C27: find() by a name that is not a string
\* ---------------------------------------------------------------------

\* Vertices named by integers, some of them sharing a name.
NumberNames == {5, 6}
InitNumbered ==
    /\ vcount = NV
    /\ directed = FALSE
    /\ edges = Triangle
    /\ vattrs \in {[a \in {<<"name">>, <<"age">>} |->
                        IF a = <<"name">> THEN f ELSE Broadcast(AgeValues, NV)] :
                    f \in [1 .. NV -> NumberNames]}
    /\ eattrs = <<>>
    /\ kind = "vs"
    /\ self \in Views(NV)
    /\ call = "none"
    /\ args = <<>>
    /\ kwds = <<>>
    /\ compiled = <<>>
    /\ res = NoResult
    /\ pc = "idle"

\* find(name=x) and find(name_eq=x) for an integer x or None, alone and with
\* another keyword before or after it.
NumberKeywords ==
    UNION {{<<Pred(<<"name">>, x)>>,
            <<Pred(<<"name", "eq">>, x)>>,
            <<Pred(<<"name">>, x), Pred(<<"age", "gt">>, IntV(20))>>,
            <<Pred(<<"age", "lt">>, IntV(30)), Pred(<<"name", "eq">>, x)>>} :
           x \in {IntV(n) : n \in NumberNames} \cup {NoneV}}

NextNumbered == \E ps \in NumberKeywords : Find(<<>>, ps)
SpecNumbered == InitNumbered /\ [][NextNumbered]_vars

\* The vertex x has what the keyword p asks for; no integer name equals
\* None.
Matches(x, p) ==
    IF p.kw[1] = "name"
    THEN p.val.k = "int" /\ vattrs[<<"name">>][x + 1] = p.val.i
    ELSE Satisfies(x, p)

\* C27: find() with name=x or name_eq=x for an integer x or None returns
\* the first vertex of the view whose name equals x (and that satisfies the
\* other keywords), and fails with the not-found error when the view has no
\* such vertex.
FindKeepsNamePredicate ==
    (pc = "done" /\ call = "find") =>
        LET kept == SelectSeq(self.idx, LAMBDA x : \A i \in DOMAIN kwds : Matches(x, kwds[i]))
        IN  IF kept = <<>> THEN ~res.ok /\ res.err = "ValueError"
            ELSE res.ok /\ res.idx = <<kept[1]>>

\* find(name=None) on vertices named 5, 6, 5 has returned the first vertex
\* of the view.
FindNoneWitness ==
    /\ pc = "done" /\ call = "find"
    /\ kwds = <<Pred(<<"name">>, NoneV)>>
    /\ vattrs[<<"name">>] = <<5, 6, 5>>
    /\ self.idx = <<1, 0>>
    /\ res.ok /\ res.idx = <<1>>

\* find(name=6) on the same vertices has returned the vertex named 6.
FindNumberWitness ==
    /\ pc = "done" /\ call = "find"
    /\ kwds = <<Pred(<<"name">>, IntV(6))>>
    /\ vattrs[<<"name">>] = <<5, 6, 5>>
    /\ self.all
    /\ res.ok /\ res.idx = <<1>>

\* ---------------------------------------------------------------------
\* C28: the result of select is drawn from the input view
\* ---------------------------------------------------------------------

\* The lists of one or two keywords of K.
OneOrTwo(K) == {<<p>> : p \in K} \cup {<<p, q>> : p \in K, q \in K}

NextDrawn ==
    \E ps \in OneOrTwo(IF kind = "es" THEN EdgeKeywords ELSE VertexKeywords) : Select(ps)
SpecDrawn == InitAttributed /\ [][NextDrawn]_vars

\* C28: every index of a view returned by select(**kwds) is an index of the
\* input view, is in the result at most as often as in the input view, and
\* is smaller than the number of elements of the graph.
ResultIsDrawnFromView ==
    (pc = "done" /\ call = "select" /\ res.ok) =>
        \A j \in DOMAIN res.idx :
            LET x == res.idx[j]
            IN  /\ \E i \in DOMAIN self.idx : self.idx[i] = x
                /\ Count(res.idx, x) <= Count(self.idx, x)
                /\ x >= 0
                /\ x < (IF kind = "es" THEN ecount(edges) ELSE vcount)

\* Two keywords on a view that holds edge 1 twice have kept both.
DrawnTwiceWitness ==
    /\ pc = "done" /\ call = "select" /\ kind = "es"
    /\ self.idx = <<1, 1>>
    /\ Len(kwds) = 2 /\ kwds[1].kw = <<"", "incident">>
    /\ res.ok /\ res.idx = <<1, 1>>

\* ---------------------------------------------------------------------
\* C29: the optimized branches are for the full view only
\* ---------------------------------------------------------------------

\* The views the loop of the call has after its first j keywords.
After(j) == select(kind, directed, edges, vattrs, eattrs, Ok(self), SubSeq(kwds, 1, j))

\* C29: at every keyword of EdgeSeq.select, is_all() holds of the current
\* view only if that view lists 0 .. N-1 in order, so a view from which an
\* earlier keyword of the call removed an element is never taken for full;
\* and no call fails with an index out of range or returns an edge that the
\* input view does not hold, as an absolute edge id read as a local position
\* of a narrowed view would.
OptimizedOnlyOnFullView ==
    (pc = "done" /\ call = "select" /\ kind = "es") =>
        /\ \A j \in 0 .. Len(kwds) :
               \A r \in After(j) : (r.ok /\ is_all(r)) => r.idx = Identity(ecount(edges))
        /\ ~(~res.ok /\ res.err = "IndexOutOfRange")
        /\ res.ok => \A j \in DOMAIN res.idx : \E i \in DOMAIN self.idx : self.idx[i] = res.idx[j]

\* On the full view of the directed graph 0->1, 1->1, weight_gt=10 left
\* edge 1 alone, and _target=1 after it kept it by the scan: the edge ids 0
\* and 1 that end in vertex 1 are no positions of the narrowed view.
AfterNarrowingWitness ==
    /\ pc = "done" /\ call = "select" /\ kind = "es" /\ directed
    /\ edges = <<<<0, 1>>, <<1, 1>>>> /\ self.all
    /\ kwds = <<Pred(<<"weight", "gt">>, IntV(10)), Pred(<<"", "target">>, IntV(1))>>
    /\ res.ok /\ res.idx = <<1>> /\ ~res.all

\* ---------------------------------------------------------------------
\* C30: the two keyword parsers agree
\* ---------------------------------------------------------------------

\* C30: the parser of VertexSeq.select (rpartition) and the parser of
\* EdgeSeq.select (rindex and slices) give the same subject and operator for
\* every keyword: what the select of one kind compiled is what the parser
\* of the other kind gives, for keywords without underscore, with a leading
\* underscore only, with a trailing underscore and with an unknown suffix.
ParsersAgree ==
    pc = "done" =>
        /\ VertexParse(Given) = EdgeParse(Given)
        /\ compiled = (IF kind = "es" THEN VertexParse(Given) ELSE EdgeParse(Given))
        /\ (Given = <<"weight">> => compiled = [attr |-> <<"weight">>, op |-> "eq"])
        /\ (Given = <<"", "source">> => compiled = [attr |-> <<"", "source">>, op |-> "eq"])
        /\ (Given = <<"a", "">> => compiled = [attr |-> <<"a", "">>, op |-> "eq"])
        /\ (Given = <<"my", "attr">> => compiled = [attr |-> <<"my", "attr">>, op |-> "eq"])

\* EdgeSeq.select compiled the keyword a_ (trailing underscore) to the
\* subject a_ with eq.
ParsersWitness ==
    /\ pc = "done" /\ kind = "es"
    /\ Given = <<"a", "">>
    /\ compiled = [attr |-> <<"a", "">>, op |-> "eq"]
    /\ VertexParse(Given) = compiled

====
